---- MODULE Spec2Model ----
(***************************************************************************)
(* Model of the postcode lookup table builders:                            *)
(*   build_geo_lookups.py    (column resolution, sheet selection, record   *)
(*                            coercion, merge of both workbooks)           *)
(*   build_postcode_lookup.py (code -> name enrichment join)               *)
(*                                                                         *)
(* A string is a sequence of one-character strings, so that strip(),       *)
(* lower(), "in" (substring) and re.match are computed, not assumed.       *)
(* A column name of the postcode table is a sequence of tokens, so that    *)
(* f"{col}_name" is a concatenation.                                       *)
(***************************************************************************)
EXTENDS Integers, Sequences, FiniteSets, TLC

VARIABLES
    cfg,          \* geo_cfg read from config.yaml (build_geo_lookup)
    keeps_na,     \* whether the installed pandas keeps NaN through astype(str)
    pc,           \* position in build_geo_lookup / __main__
    keep,         \* ewni_keep / scot_keep of the workbook being processed
    i,            \* index of the next sheet of keep
    outputs,      \* outputs: the list of coerced frames
    out,          \* the merged frame
    files,        \* out_csv: whether it was written, and the table written
    error,        \* the exception that ended the build, if any
    exit_status,  \* the process's exit status
    log,          \* one entry per sheet the loops visited
    call,         \* arguments of one call of a pure function
    ret,          \* what that call returned
    pdf,          \* build_postcode_lookup: df
    nspl,         \* build_postcode_lookup: the table as read from nspl_csv
    geo,          \* build_postcode_lookup: geo, as read from out_csv
    pcfg,         \* build_postcode_lookup: pcfg
    k,            \* index of the next column of join_codes
    ppc           \* position in build_postcode_lookup

geoVars  == <<cfg, keeps_na, pc, keep, i, outputs, out, files, error, exit_status, log>>
fnVars   == <<call, ret>>
postVars == <<pdf, nspl, geo, pcfg, k, ppc>>
vars     == <<geoVars, fnVars, postVars>>

----------------------------------------------------------------------------
(* Bounds *)

MaxCols    == 2   \* columns of a sheet
MaxCands   == 2   \* candidates of one field; names of an explicit sheet list
MaxRows    == 2   \* data rows read by one build, over all sheets
MaxSheets  == 2   \* sheets one build visits, over both workbooks
MaxPcRows  == 1   \* rows of the postcode table
MaxGeoRows == 2   \* rows of the geo lookup read by the postcode build
MaxJoin    == 2   \* entries of join_name_for_codes

----------------------------------------------------------------------------
(* Values *)

None == <<"<None>">>     \* Python's None
NA   == <<"<NA>">>       \* pandas' missing value (NaN / pd.NA)

Min(S) == CHOOSE x \in S : \A y \in S : x <= y
Max(S) == CHOOSE x \in S : \A y \in S : x >= y
Range(s) == {s[n] : n \in DOMAIN s}

RECURSIVE SeqsUpTo(_, _)
SeqsUpTo(S, n) ==
    IF n = 0 THEN {<<>>}
    ELSE LET shorter == SeqsUpTo(S, n - 1)
         IN  shorter \cup {Append(s, x) : s \in {t \in shorter : Len(t) = n - 1}, x \in S}

Distinct(s) == \A a, b \in DOMAIN s : a # b => s[a] # s[b]

----------------------------------------------------------------------------
(* str.lower, str.strip, substring test *)

UpperAlphabet == <<"A","B","C","D","E","F","G","H","I","J","K","L","M",
                   "N","O","P","Q","R","S","T","U","V","W","X","Y","Z">>
LowerAlphabet == <<"a","b","c","d","e","f","g","h","i","j","k","l","m",
                   "n","o","p","q","r","s","t","u","v","w","x","y","z">>
Whitespace == {" "}

LowerChar(c) ==
    IF \E n \in DOMAIN UpperAlphabet : UpperAlphabet[n] = c
    THEN LowerAlphabet[CHOOSE n \in DOMAIN UpperAlphabet : UpperAlphabet[n] = c]
    ELSE c

lower(s) == [n \in DOMAIN s |-> LowerChar(s[n])]

strip(s) ==
    LET solid == {n \in DOMAIN s : s[n] \notin Whitespace}
    IN  IF solid = {} THEN <<>> ELSE SubSeq(s, Min(solid), Max(solid))

\* Python's  sub in s  for strings
contains(sub, s) ==
    \E n \in 0 .. (Len(s) - Len(sub)) : SubSeq(s, n + 1, n + Len(sub)) = sub

----------------------------------------------------------------------------
(* A DataFrame read from a sheet: [columns: Seq(String), rows: Seq(Seq(Cell))], *)
(* row r holding one cell per column.                                           *)

df_empty(df) == Len(df.columns) = 0 \/ Len(df.rows) = 0

normcols(df) == [df EXCEPT !.columns = [n \in DOMAIN df.columns |-> strip(df.columns[n])]]

\* colmap = {c.lower(): c for c in df.columns}: a later column replaces an earlier one
colmap_has(columns, key) == \E n \in DOMAIN columns : lower(columns[n]) = key
colmap_get(columns, key) == columns[Max({n \in DOMAIN columns : lower(columns[n]) = key})]

first_present_no_exact_pass(df, candidates) ==
    IF df_empty(df) THEN None
    ELSE
      LET cols == df.columns
          hit(c) == lower(candidates[c]) # <<>> /\
                    \E n \in DOMAIN cols : contains(lower(candidates[c]), lower(cols[n]))
          hits  == {c \in DOMAIN candidates : hit(c)}
      IN  IF hits = {} THEN None
          ELSE LET key == lower(candidates[Min(hits)])
               IN  cols[Min({n \in DOMAIN cols : contains(key, lower(cols[n]))})]

first_present_any_match(df, candidates) ==
    IF df_empty(df) THEN None
    ELSE
      LET cols  == df.columns
          exact == {c \in DOMAIN candidates : colmap_has(cols, lower(candidates[c]))}
      IN  IF exact # {} THEN colmap_get(cols, lower(candidates[Min(exact)]))
          ELSE IF cols # <<>> /\ candidates # <<>> THEN cols[1]
          ELSE None

first_present(df, candidates) ==
    IF df_empty(df) THEN None
    ELSE
      LET cols  == df.columns
          exact == {c \in DOMAIN candidates : colmap_has(cols, lower(candidates[c]))}
          hit(c) == lower(candidates[c]) # <<>> /\
                    \E n \in DOMAIN cols : contains(lower(candidates[c]), lower(cols[n]))
          hits  == {c \in DOMAIN candidates : hit(c)}
      IN  IF exact # {} THEN colmap_get(cols, lower(candidates[Min(exact)]))
          ELSE IF hits # {}
               THEN LET key == lower(candidates[Min(hits)])
                    IN  cols[Min({n \in DOMAIN cols : contains(key, lower(cols[n]))})]
          ELSE None

\* colmap.get(field, [])
colmap_field(colmap, field) == IF field \in DOMAIN colmap THEN colmap[field] ELSE <<>>

has_required_columns(df, colmap) ==
    first_present(normcols(df), colmap_field(colmap, "code")) # None

----------------------------------------------------------------------------
(* _coerce_sheet.  A coerced frame is a sequence of rows                    *)
(* [index, Code, Name, AlternateName, Status]; index is the pandas row      *)
(* label, which the row keeps through dropna, filtering and drop_duplicates. *)

Fields == <<"code", "name", "alternatename", "status">>

\* lines 89-92: the column each canonical field resolves to
resolve_columns(df, colmap) ==
    [f \in Range(Fields) |-> first_present(df, colmap_field(colmap, f))]

positions(df, col) == {n \in DOMAIN df.columns : df.columns[n] = col}

\* df[col] is a DataFrame, not a Series, when two columns carry the name col;
\* a DataFrame has no .str accessor and line 100/103/108/113 raises AttributeError
selects_frame(df, col) == col # None /\ Cardinality(positions(df, col)) > 1

coerce_raises(df0, colmap) ==
    LET df   == normcols(df0)
        cols == resolve_columns(df, colmap)
    IN  cols["code"] # None /\ \E f \in Range(Fields) : selects_frame(df, cols[f])

\* Series.astype(str): pandas before 3.0 turns a missing value into the text
\* "nan"; pandas 3.0 keeps it missing
astype_str(cell, keeps) ==
    IF cell = NA THEN (IF keeps THEN NA ELSE <<"n", "a", "n">>) ELSE cell

str_strip(cell) == IF cell = NA THEN NA ELSE strip(cell)

\* df[col].astype(str).str.strip() at row r, or pd.NA when the field is unresolved
field_value(df, col, r, keeps) ==
    IF col = None THEN NA
    ELSE str_strip(astype_str(df.rows[r][Min(positions(df, col))], keeps))

\* lines 100-115
canonical(df, cols, keeps) ==
    [r \in DOMAIN df.rows |->
        [index         |-> r - 1,
         Code          |-> field_value(df, cols["code"], r, keeps),
         Name          |-> field_value(df, cols["name"], r, keeps),
         AlternateName |-> field_value(df, cols["alternatename"], r, keeps),
         Status        |-> field_value(df, cols["status"], r, keeps)]]

RECURSIVE select_rows(_, _)
select_rows(frame, wanted) ==
    IF frame = <<>> THEN <<>>
    ELSE IF 1 \in wanted
         THEN <<frame[1]>> \o select_rows(Tail(frame), {n - 1 : n \in wanted \ {1}})
         ELSE select_rows(Tail(frame), {n - 1 : n \in wanted})

\* lines 118-119: dropna(subset=["Code"]), then Code.str.len() > 0
clean(frame) ==
    select_rows(frame, {n \in DOMAIN frame : frame[n].Code # NA /\ Len(frame[n].Code) > 0})

\* drop_duplicates(subset=["Code"]): keep="first" is the default
drop_duplicates_keep_last(frame) ==
    select_rows(frame, {n \in DOMAIN frame :
                           ~ \E m \in DOMAIN frame : m > n /\ frame[m].Code = frame[n].Code})

drop_duplicates(frame) ==
    select_rows(frame, {n \in DOMAIN frame :
                           ~ \E m \in DOMAIN frame : m < n /\ frame[m].Code = frame[n].Code})

\* the frame after line 119, before the sheet's own drop_duplicates
cleaned_sheet(df0, colmap, keeps) ==
    LET df   == normcols(df0)
        cols == resolve_columns(df, colmap)
    IN  IF cols["code"] = None THEN <<>> ELSE clean(canonical(df, cols, keeps))

\* _coerce_sheet when it does not raise
coerce_sheet(df0, colmap, keeps) == drop_duplicates(cleaned_sheet(df0, colmap, keeps))

----------------------------------------------------------------------------
(* _filter_sheet_names.  A pattern is a sequence of atoms: a literal         *)
(* character, ".", "[A-Z]", "[0-9]", with "^" allowed first and "$" last.    *)

Digits == {"0","1","2","3","4","5","6","7","8","9"}

atom_matches(atom, c) ==
    CASE atom = "."     -> TRUE
      [] atom = "[A-Z]" -> c \in Range(UpperAlphabet)
      [] atom = "[0-9]" -> c \in Digits
      [] OTHER          -> atom = c

\* re.compile(pattern).match(s): anchored at the start of s only
re_match(pattern, s) ==
    LET p1   == IF pattern # <<>> /\ pattern[1] = "^" THEN Tail(pattern) ELSE pattern
        toEnd == p1 # <<>> /\ p1[Len(p1)] = "$"
        body == IF toEnd THEN SubSeq(p1, 1, Len(p1) - 1) ELSE p1
    IN  /\ Len(body) <= Len(s)
        /\ \A n \in DOMAIN body : atom_matches(body[n], s[n])
        /\ toEnd => Len(s) = Len(body)

RECURSIVE names_where(_, _)
names_where(names, wanted) ==
    IF names = <<>> THEN <<>>
    ELSE (IF names[1] \in wanted THEN <<names[1]>> ELSE <<>>) \o names_where(Tail(names), wanted)

\* "if pattern:" for a pattern or None; "if explicit_list:" for a list
truthy(pattern) == pattern # None /\ pattern # <<>>

filter_sheet_names_combined(all_names, explicit_list, pattern) ==
    LET byList == IF explicit_list # <<>>
                  THEN names_where(all_names, Range(explicit_list)) ELSE all_names
    IN  IF truthy(pattern)
        THEN names_where(byList, {n \in Range(byList) : re_match(pattern, strip(n))})
        ELSE byList

filter_sheet_names(all_names, explicit_list, pattern) ==
    IF explicit_list # <<>>
    THEN names_where(all_names, Range(explicit_list))
    ELSE IF truthy(pattern)
         THEN names_where(all_names, {n \in Range(all_names) : re_match(pattern, strip(n))})
         ELSE all_names

----------------------------------------------------------------------------
(* Inputs of build_geo_lookup *)

sCD  == <<"C", "D">>
sNM  == <<"N", "M">>
sGCD == <<"G", "C", "D">>
E1   == <<"E", "1">>
S1   == <<"S", "1">>

\* header rows as read_excel returns them (before _normcols); read_excel never
\* returns the same header twice, but two may differ only in surrounding blanks
BuildLayouts ==
    { <<sCD, <<" ", "N", "M">>>>,      \* code and name
      <<sCD, <<"C", "D", " ">>>>,        \* two columns named CD once trimmed
      <<sGCD>> }                         \* no name column; code by substring at most

CellPool == {NA, <<"E", " ">>, <<"F">>}

RowsOf(columns) == [DOMAIN columns -> CellPool]

FramesUpTo(layouts, n) ==
    UNION { {[columns |-> h, rows |-> rs] : rs \in SeqsUpTo(RowsOf(h), n)} : h \in layouts }

BaseColmap ==
    [code |-> <<lower(sCD)>>, name |-> <<sNM>>, alternatename |-> <<<<"A", "L">>>>,
     status |-> <<>>]

NoOverrides == [s \in {} |-> <<>>]

\* an override is a whole ColumnMapping of its own; these leave fields out
OverrideChoices ==
    { NoOverrides,
      [s \in {S1} |-> [name |-> <<sNM>>]],
      [s \in {E1, S1} |-> IF s = E1 THEN [code |-> <<sCD>>] ELSE [name |-> <<sNM>>]] }

SelectionChoices ==
    { [ewni_sheets |-> <<>>,   scotland_sheets |-> <<>>, sheet_name_pattern |-> None],
      [ewni_sheets |-> <<E1>>, scotland_sheets |-> <<>>, sheet_name_pattern |-> <<"^", "[A-Z]", "1">>] }

Configs ==
    { [ewni_sheets         |-> sel.ewni_sheets,
       scotland_sheets     |-> sel.scotland_sheets,
       sheet_name_pattern  |-> sel.sheet_name_pattern,
       column_map          |-> BaseColmap,
       per_sheet_overrides |-> ov] : sel \in SelectionChoices, ov \in OverrideChoices }

\* xls.sheet_names: a workbook's sheet names are distinct
SheetNameLists == {names \in SeqsUpTo({E1, S1}, MaxSheets) : Distinct(names)}

BuildFrames == FramesUpTo(BuildLayouts, MaxRows)

----------------------------------------------------------------------------
(* build_geo_lookup and its __main__ wrapper *)

RECURSIVE rows_read(_)
rows_read(entries) ==
    IF entries = <<>> THEN 0 ELSE entries[1].nrows + rows_read(Tail(entries))

RECURSIVE flatten(_)
flatten(frames) == IF frames = <<>> THEN <<>> ELSE frames[1] \o flatten(Tail(frames))

\* pd.concat(outputs, ignore_index=True): the rows in order, relabelled 0, 1, ...
concat(frames) ==
    LET all == flatten(frames) IN [n \in DOMAIN all |-> [all[n] EXCEPT !.index = n - 1]]

\* overrides.get(sheet, base_colmap)
use_map_merged(sheet) ==
    IF sheet \in DOMAIN cfg.per_sheet_overrides
    THEN [f \in Range(Fields) |->
            IF f \in DOMAIN cfg.per_sheet_overrides[sheet]
            THEN cfg.per_sheet_overrides[sheet][f] ELSE colmap_field(cfg.column_map, f)]
    ELSE cfg.column_map

use_map_for(sheet) ==
    IF sheet \in DOMAIN cfg.per_sheet_overrides
    THEN cfg.per_sheet_overrides[sheet] ELSE cfg.column_map

GeoInit ==
    /\ cfg \in Configs
    /\ keeps_na \in BOOLEAN
    /\ pc = "start"
    /\ keep = <<>>
    /\ i = 1
    /\ outputs = <<>>
    /\ out = <<>>
    /\ files = [csv_written |-> FALSE, csv |-> <<>>]
    /\ error = "none"
    /\ exit_status = -1
    /\ log = <<>>

GeoIdle ==
    /\ cfg = None /\ pc = "idle" /\ keep = <<>> /\ i = 1
    /\ outputs = <<>> /\ out = <<>> /\ files = [csv_written |-> FALSE, csv |-> <<>>]
    /\ error = "none" /\ exit_status = -1 /\ log = <<>>

FnIdle == call = [fn |-> "none"] /\ ret = None

PostIdle ==
    pdf = None /\ nspl = None /\ geo = None /\ pcfg = None /\ k = 1 /\ ppc = "idle"

\* an exception leaves build_geo_lookup; __main__ (lines 234-239) exits with status 1.
\* "FileNotFoundError" stands for whatever pd.ExcelFile raises on a workbook it
\* cannot open.
Abort(exception) ==
    /\ error' = exception
    /\ exit_status' = 1
    /\ pc' = "exit"

\* lines 181-183 (wb = "ewni", from "start") and 197-199 (wb = "scot", after the
\* EW/NI loop): _load_xlsx, which raises when the workbook cannot be opened, then
\* _filter_sheet_names.  The frame of a sheet is drawn where the loop reads it.
LoadWorkbook(wb, from, explicit_list) ==
    /\ pc = from
    /\ from = "ewni" => i > Len(keep)
    /\ \/ /\ Abort("FileNotFoundError")
          /\ UNCHANGED <<keep, i>>
       \/ \E names \in SheetNameLists :
            /\ Len(log) + Len(names) <= MaxSheets
            /\ keep' = filter_sheet_names(names, explicit_list, cfg.sheet_name_pattern)
            /\ i' = 1
            /\ pc' = wb
            /\ UNCHANGED <<error, exit_status>>
    /\ UNCHANGED <<cfg, keeps_na, outputs, out, files, log, fnVars, postVars>>

LoadEwni == LoadWorkbook("ewni", "start", cfg.ewni_sheets)

LoadScot == LoadWorkbook("scot", "ewni", cfg.scotland_sheets)

\* one iteration of the loop at lines 185-194 (wb = "ewni") or 201-210 (wb = "scot")
ProcessSheet(wb) ==
    /\ pc = wb
    /\ i <= Len(keep)
    /\ \E df \in BuildFrames :
         /\ rows_read(log) + Len(df.rows) <= MaxRows
         /\ LET sheet   == keep[i]
                use_map == use_map_for(sheet)
                entry   == [wb |-> wb, sheet |-> sheet, columns |-> normcols(df).columns,
                            nrows |-> Len(df.rows), use_map |-> use_map,
                            cols |-> resolve_columns(normcols(df), use_map),
                            outcome |-> "processed",
                            cleaned |-> <<>>]
            IN  IF ~ has_required_columns(df, use_map)
                THEN /\ log' = Append(log, [entry EXCEPT !.outcome = "skipped"])
                     /\ i' = i + 1
                     /\ UNCHANGED <<outputs, pc, error, exit_status>>
                ELSE IF coerce_raises(df, use_map)
                THEN /\ log' = Append(log, [entry EXCEPT !.outcome = "raised"])
                     /\ Abort("AttributeError")
                     /\ UNCHANGED <<outputs, i>>
                ELSE LET coerced == coerce_sheet(df, use_map, keeps_na)
                     IN  /\ log' = Append(log, [entry EXCEPT
                                        !.cleaned = cleaned_sheet(df, use_map, keeps_na)])
                         /\ outputs' = IF coerced # <<>> THEN Append(outputs, coerced) ELSE outputs
                         /\ i' = i + 1
                         /\ UNCHANGED <<pc, error, exit_status>>
    /\ UNCHANGED <<cfg, keeps_na, keep, out, files, fnVars, postVars>>

EwniSheet == ProcessSheet("ewni")

ScotSheet == ProcessSheet("scot")

\* Merge without the check of line 212
Merge_writes_empty_table ==
    /\ pc = "scot"
    /\ i > Len(keep)
    /\ out' = drop_duplicates(concat(outputs))
    /\ files' = [csv_written |-> TRUE, csv |-> out']
    /\ pc' = "exit"
    /\ exit_status' = 0
    /\ UNCHANGED <<error, cfg, keeps_na, keep, i, outputs, log, fnVars, postVars>>

\* lines 212-230: the empty check, concat, drop_duplicates, the write of out_csv.
\* The optional Parquet copy (lines 223-228) holds the same frame and its failure
\* is caught; it changes nothing below.
Merge ==
    /\ pc = "scot"
    /\ i > Len(keep)
    /\ IF outputs = <<>>
       THEN /\ Abort("RuntimeError")
            /\ UNCHANGED <<out, files>>
       ELSE /\ out' = drop_duplicates(concat(outputs))
            /\ files' = [csv_written |-> TRUE, csv |-> out']
            /\ pc' = "exit"
            /\ exit_status' = 0
            /\ UNCHANGED error
    /\ UNCHANGED <<cfg, keeps_na, keep, i, outputs, log, fnVars, postVars>>

Init == GeoInit /\ FnIdle /\ PostIdle

Next == LoadEwni \/ EwniSheet \/ LoadScot \/ ScotSheet \/ Merge

Spec == Init /\ [][Next]_vars

----------------------------------------------------------------------------
(* Properties of build_geo_lookup, checked under Spec *)

\* the rows every visited sheet contributed, in processing order, before any
\* drop_duplicates
occurrences == flatten([n \in DOMAIN log |-> log[n].cleaned])

same_fields(a, b) ==
    /\ a.Code = b.Code /\ a.Name = b.Name
    /\ a.AlternateName = b.AlternateName /\ a.Status = b.Status

succeeded == pc = "exit" /\ exit_status = 0

\* C2: the written table has at most one record per Code, holds every Code that
\* occurred, and the record of a Code is its first occurrence in processing order
\* (EW/NI sheets, then Scotland sheets, rows in sheet order), all four fields as
\* they were.
C2_FirstSeenWins ==
    succeeded =>
      /\ files.csv_written /\ files.csv = out
      /\ \A a, b \in DOMAIN out : a # b => out[a].Code # out[b].Code
      /\ \A n \in DOMAIN occurrences : \E r \in DOMAIN out : out[r].Code = occurrences[n].Code
      /\ \A r \in DOMAIN out :
           \E n \in DOMAIN occurrences :
             /\ same_fields(occurrences[n], out[r])
             /\ \A m \in 1 .. (n - 1) : occurrences[m].Code # out[r].Code

\* a Code occurred in an EW/NI sheet and again, under another name, in a Scotland
\* sheet, and the table was written
C2_Witness ==
    /\ succeeded
    /\ \E a, b \in DOMAIN log :
         /\ log[a].wb = "ewni" /\ log[b].wb = "scot"
         /\ \E x \in DOMAIN log[a].cleaned, y \in DOMAIN log[b].cleaned :
              /\ log[a].cleaned[x].Code = log[b].cleaned[y].Code
              /\ log[a].cleaned[x].Name # log[b].cleaned[y].Name

\* C3: a sheet whose processing raises is skipped and the build goes on; the only
\* fatal errors are a workbook that cannot be opened and a result without records.
C3_SheetErrorIsNotFatal ==
    exit_status = 1 => error \in {"FileNotFoundError", "RuntimeError"}

\* C5: a build whose sheets contributed no record ends with exit status 1 and
\* writes no table; the error of line 213 is raised exactly when the loops ended
\* without a record, never when a record was contributed.
C5_EmptyResultIsFatal ==
    pc = "exit" =>
      /\ occurrences = <<>> => (exit_status = 1 /\ ~ files.csv_written /\ out = <<>>)
      /\ error = "RuntimeError" => occurrences = <<>>
      /\ (occurrences = <<>> /\ error \notin {"FileNotFoundError", "AttributeError"})
            => error = "RuntimeError"
      /\ succeeded => out # <<>>

\* the loops ended, a sheet with data rows was processed, and no record survived
C5_Witness ==
    /\ pc = "exit" /\ error = "RuntimeError" /\ exit_status = 1
    /\ \E n \in DOMAIN log : log[n].outcome = "processed" /\ log[n].nrows > 0

\* no header equals a candidate or contains one, case-insensitively
no_match(columns, candidates) ==
    \A c \in DOMAIN candidates, h \in DOMAIN columns :
        /\ lower(columns[h]) # lower(candidates[c])
        /\ ~ contains(lower(candidates[c]), lower(columns[h]))

entries_of(wb) == {n \in DOMAIN log : log[n].wb = wb}

\* C6: a field whose candidates match no header resolves to None; an unresolved
\* name, alternatename or status is NA in every record of the sheet; a sheet with
\* an unresolved code is skipped, contributes nothing, and the loop moves on to
\* the next sheet.
C6_UnresolvedFields ==
    /\ \A n \in DOMAIN log :
         LET e == log[n] IN
         /\ \A f \in Range(Fields) :
              no_match(e.columns, colmap_field(e.use_map, f)) => e.cols[f] = None
         /\ e.cols["code"] = None => (e.outcome = "skipped" /\ e.cleaned = <<>>)
         /\ \A r \in DOMAIN e.cleaned :
              /\ e.cols["name"] = None => e.cleaned[r].Name = NA
              /\ e.cols["alternatename"] = None => e.cleaned[r].AlternateName = NA
              /\ e.cols["status"] = None => e.cleaned[r].Status = NA
         /\ (e.outcome = "skipped" /\ n = Len(log)) => error # "AttributeError"
    /\ pc \in {"ewni", "scot"} => i = Cardinality(entries_of(pc)) + 1

\* a sheet with data rows but no code column was skipped, and a later sheet
\* without a name column was processed into the written table
C6_Witness ==
    /\ succeeded
    /\ \E a, b \in DOMAIN log :
         /\ a < b
         /\ log[a].outcome = "skipped" /\ log[a].nrows > 0
         /\ no_match(log[a].columns, colmap_field(log[a].use_map, "code"))
         /\ log[b].outcome = "processed" /\ log[b].cols["name"] = None
         /\ no_match(log[b].columns, colmap_field(log[b].use_map, "name"))
         /\ colmap_field(log[b].use_map, "name") # <<>>
         /\ \E r \in DOMAIN out : out[r].Name = NA

\* the frame of a log entry, as far as column resolution reads it
frame_of(e) == [columns |-> e.columns, rows |-> [r \in 1 .. e.nrows |-> <<>>]]

overridden(sheet) == sheet \in DOMAIN cfg.per_sheet_overrides

\* C10: a sheet with an entry in per_sheet_overrides resolves all four fields from
\* that entry alone (a field the entry leaves out is unresolved: NA in the
\* records, or the sheet skipped when it is code); any other sheet resolves them
\* from column_map.
C10_OverrideReplacesBase ==
    \A n \in DOMAIN log :
      LET e == log[n] IN
      IF overridden(e.sheet)
      THEN /\ e.cols = resolve_columns(frame_of(e), cfg.per_sheet_overrides[e.sheet])
           /\ \A f \in Range(Fields) \ DOMAIN cfg.per_sheet_overrides[e.sheet] :
                e.cols[f] = None
           /\ "code" \notin DOMAIN cfg.per_sheet_overrides[e.sheet] => e.outcome = "skipped"
           /\ "name" \notin DOMAIN cfg.per_sheet_overrides[e.sheet] =>
                \A r \in DOMAIN e.cleaned : e.cleaned[r].Name = NA
      ELSE e.cols = resolve_columns(frame_of(e), cfg.column_map)

\* an overridden sheet without a name entry lost the name column the base mapping
\* would have found, and an overridden sheet without a code entry was skipped
\* although the base mapping would have found its code column
C10_Witness ==
    \E a, b \in DOMAIN log :
      /\ overridden(log[a].sheet) /\ overridden(log[b].sheet)
      /\ "name" \notin DOMAIN cfg.per_sheet_overrides[log[a].sheet]
      /\ log[a].cleaned # <<>>
      /\ resolve_columns(frame_of(log[a]), cfg.column_map)["name"] # None
      /\ "code" \notin DOMAIN cfg.per_sheet_overrides[log[b].sheet]
      /\ log[b].outcome = "skipped"
      /\ resolve_columns(frame_of(log[b]), cfg.column_map)["code"] # None

----------------------------------------------------------------------------
(* _first_present as a function of its arguments: SpecResolve *)

HeaderPool == {sCD, <<"c", "d", " ">>, sGCD, <<" ", "N", "M">>, <<"G", "n", "m">>}

CandidatePool == {lower(sCD), sCD, sNM, <<"g">>, <<"Z">>, <<>>}

\* frames of no or one data row; _first_present reads no cell
ResolveFrames ==
    { [columns |-> h, rows |-> rs] :
        h \in {c \in SeqsUpTo(HeaderPool, MaxCols) : Distinct(c)},
        rs \in {<<>>, <<<<>>>>} }

CandidateLists == SeqsUpTo(CandidatePool, MaxCands)

ResolveInit == GeoIdle /\ keeps_na = FALSE /\ FnIdle /\ PostIdle

\* _first_present on the frame _normcols returns, as lines 77-78 and 87-92 call it
CallFirstPresent ==
    /\ call.fn = "none"
    /\ \E df \in ResolveFrames, candidates \in CandidateLists :
         /\ call' = [fn |-> "first_present", df |-> normcols(df), candidates |-> candidates]
         /\ ret' = first_present(normcols(df), candidates)
    /\ UNCHANGED <<geoVars, postVars>>

SpecResolve == ResolveInit /\ [][CallFirstPresent]_vars

\* the headers that equal some candidate, case-insensitively
exact_headers(columns, candidates) ==
    {h \in Range(columns) : \E c \in DOMAIN candidates : lower(h) = lower(candidates[c])}

exact_beats_substring ==
    LET exact == exact_headers(call.df.columns, call.candidates) IN
    /\ exact # {} => ret \in exact
    /\ (ret # None /\ ret \notin exact) =>
         /\ exact = {}
         /\ ret \in Range(call.df.columns)
         /\ \E c \in DOMAIN call.candidates :
              call.candidates[c] # <<>> /\ contains(lower(call.candidates[c]), lower(ret))

\* C1 as stated: for all trimmed headers H and candidate lists C the result is a
\* header equal to some candidate, case-insensitively, whenever one exists, and a
\* substring match is returned only when no candidate has an exact match.
C1_ExactBeatsSubstring ==
    call.fn = "first_present" => exact_beats_substring

\* C1 as amended: the same for a frame with at least one data row; for a frame
\* without data rows the result is None whatever the headers are.
C1_ExactBeatsSubstringWithRows ==
    call.fn = "first_present" =>
      IF call.df.rows = <<>> THEN ret = None ELSE exact_beats_substring

\* the first candidate is only a substring of a header, the second equals another
\* header, and the second's header is returned
C1_Witness ==
    /\ call.fn = "first_present"
    /\ call.df.rows # <<>>
    /\ Len(call.candidates) = 2
    /\ exact_headers(call.df.columns, <<call.candidates[1]>>) = {}
    /\ \E h \in Range(call.df.columns) : contains(lower(call.candidates[1]), lower(h))
    /\ call.candidates[1] # <<>>
    /\ ret \in exact_headers(call.df.columns, <<call.candidates[2]>>)

----------------------------------------------------------------------------
(* _filter_sheet_names as a function of its arguments: SpecSelect *)

MaxNames == 3   \* sheet names of the workbook

NamePool == {E1, S1, <<" ", "E", "1">>, <<"x">>}

AllNameLists == {names \in SeqsUpTo(NamePool, MaxNames) : Distinct(names)}

\* geo_cfg.get("ewni_sheets", []) or []: always a list
ExplicitLists == SeqsUpTo({E1, <<"x">>, <<"q">>}, MaxCands)

PatternPool ==
    {None, <<>>, <<"E">>, <<"^", "[A-Z]", "[0-9]">>, <<"E", "1", "$">>, <<".">>}

SelectInit == GeoIdle /\ keeps_na = FALSE /\ FnIdle /\ PostIdle

CallFilterSheetNames ==
    /\ call.fn = "none"
    /\ \E all_names \in AllNameLists, explicit_list \in ExplicitLists, pattern \in PatternPool :
         /\ call' = [fn |-> "filter_sheet_names", all_names |-> all_names,
                     explicit_list |-> explicit_list, pattern |-> pattern]
         /\ ret' = filter_sheet_names(all_names, explicit_list, pattern)
    /\ UNCHANGED <<geoVars, postVars>>

SpecSelect == SelectInit /\ [][CallFilterSheetNames]_vars

position(s, x) == CHOOSE n \in DOMAIN s : s[n] = x

\* sub holds exactly the names of S, each once, in the order they have in all_names
keeps_in_order(sub, all_names, S) ==
    /\ Range(sub) = S
    /\ Distinct(sub)
    /\ \A a, b \in DOMAIN sub : a < b => position(all_names, sub[a]) < position(all_names, sub[b])

\* C9: with a non-empty explicit list the result is the names of all_names that
\* are in the list, in all_names order, whatever the pattern; without one and with
\* a pattern it is the names whose trimmed value the pattern matches from its
\* start; with neither it is all_names.
C9_SheetSelection ==
    call.fn = "filter_sheet_names" =>
      IF call.explicit_list # <<>>
      THEN keeps_in_order(ret, call.all_names,
                          Range(call.all_names) \cap Range(call.explicit_list))
      ELSE IF truthy(call.pattern)
      THEN keeps_in_order(ret, call.all_names,
                          {n \in Range(call.all_names) : re_match(call.pattern, strip(n))})
      ELSE ret = call.all_names

\* an explicit list and a pattern are both given; a listed name the pattern does
\* not match is kept, a name the pattern matches but the list lacks is dropped,
\* and the kept names stand in the workbook's order, not the list's
C9_Witness ==
    /\ call.fn = "filter_sheet_names"
    /\ call.explicit_list # <<>> /\ truthy(call.pattern)
    /\ \E n \in Range(ret) : ~ re_match(call.pattern, strip(n))
    /\ \E n \in Range(call.all_names) : re_match(call.pattern, strip(n)) /\ n \notin Range(ret)
    /\ Len(ret) = 2
    /\ ret # call.explicit_list

----------------------------------------------------------------------------
(* _coerce_sheet as a function of its arguments: SpecCoerce *)

CoerceLayouts == { <<sCD>>, <<sCD, <<" ", "N", "M">>>> }

\* a blank cell (read_excel: NaN), a cell of blanks, and two codes
CoerceCellPool == {NA, <<" ">>, <<"E", " ">>, <<"F">>}

CoerceFrames ==
    UNION { {[columns |-> h, rows |-> rs] :
               rs \in SeqsUpTo([DOMAIN h -> CoerceCellPool], MaxRows)} : h \in CoerceLayouts }

CoerceInit == GeoIdle /\ keeps_na \in BOOLEAN /\ FnIdle /\ PostIdle

CallCoerceSheet ==
    /\ call.fn = "none"
    /\ \E df \in CoerceFrames :
         /\ call' = [fn |-> "coerce_sheet", df |-> df, colmap |-> BaseColmap]
         /\ ret' = coerce_sheet(df, BaseColmap, keeps_na)
    /\ UNCHANGED <<geoVars, postVars>>

SpecCoerce == CoerceInit /\ [][CallCoerceSheet]_vars

\* C4: every record of a coerced sheet has a Code that is not null, not empty and
\* trimmed, and no record comes from a row whose code cell is blank or empty once
\* trimmed.
C4_NoBlankCode ==
    call.fn = "coerce_sheet" =>
      LET df       == normcols(call.df)
          code_col == resolve_columns(df, call.colmap)["code"]
          cell(r)  == df.rows[r][Min(positions(df, code_col))]
      IN  /\ \A n \in DOMAIN ret :
                ret[n].Code # NA /\ ret[n].Code # <<>> /\ strip(ret[n].Code) = ret[n].Code
          /\ code_col # None =>
               \A r \in DOMAIN df.rows :
                  (cell(r) = NA \/ strip(cell(r)) = <<>>) =>
                     ~ \E n \in DOMAIN ret : ret[n].index = r - 1

----------------------------------------------------------------------------
(* build_postcode_lookup: SpecJoin.  A table is [columns: Seq(Name), rows:   *)
(* Seq(Seq(Cell))]; a column name is a sequence of tokens.                    *)

colA == <<"a">>
colB == <<"b">>

\* f"{col}_name"
name_column(col) == col \o <<"_name">>

PcCellPool == {NA, E1, <<"N">>}

PcLayouts == { <<colA>>, <<colA, name_column(colA)>> }

\* read_csv(nspl_csv, usecols=keep_columns, dtype=str)
PcTables ==
    UNION { {[columns |-> h, rows |-> rs] :
               rs \in SeqsUpTo([DOMAIN h -> PcCellPool], MaxPcRows)} : h \in PcLayouts }

\* read_csv(out_csv, dtype=str), its Code and Name columns
GeoTables == SeqsUpTo([Code : {E1, S1}, Name : {<<"N">>, NA}], MaxGeoRows)

JoinLists == SeqsUpTo({colA, name_column(colA), colB}, MaxJoin)

RenameChoices ==
    { [c \in {} |-> <<>>],
      [c \in {name_column(colA), colB} |-> IF c = colB THEN colA ELSE <<"area">>] }

PostInit ==
    /\ GeoIdle /\ keeps_na = FALSE /\ FnIdle
    /\ pcfg \in [join_name_for_codes : JoinLists, rename_final : RenameChoices]
    /\ pdf = [columns |-> <<>>, rows |-> <<>>]
    /\ nspl = [columns |-> <<>>, rows |-> <<>>]
    /\ geo = <<>>
    /\ k = 1
    /\ ppc = "start"

\* lines 25-34: the table is read; geo is read when there is a column to join
ReadCsv ==
    /\ ppc = "start"
    /\ \E table \in PcTables, lookup \in GeoTables :
         /\ nspl' = table
         /\ pdf' = table
         /\ geo' = IF pcfg.join_name_for_codes # <<>> THEN lookup ELSE <<>>
    /\ k' = 1
    /\ ppc' = "join"
    /\ UNCHANGED <<geoVars, fnVars, pcfg>>

\* code_to_name = dict(zip(geo["Code"], geo["Name"])): the last row of a Code wins;
\* Series.map gives NaN for a value that is no key
code_to_name(lookup, code) ==
    LET rows == {n \in DOMAIN lookup : lookup[n].Code = code}
    IN  IF rows = {} THEN NA ELSE lookup[Max(rows)].Name

column_index(df, col) == Min({n \in DOMAIN df.columns : df.columns[n] = col})

\* df[name] = values: replaces the column called name, or appends it
set_column(df, name, values) ==
    IF name \in Range(df.columns)
    THEN [df EXCEPT !.rows = [r \in DOMAIN df.rows |->
                                 [df.rows[r] EXCEPT ![column_index(df, name)] = values[r]]]]
    ELSE [columns |-> Append(df.columns, name),
          rows    |-> [r \in DOMAIN df.rows |-> Append(df.rows[r], values[r])]]

\* one iteration of the loop at lines 35-37
JoinStep ==
    /\ ppc = "join"
    /\ k <= Len(pcfg.join_name_for_codes)
    /\ LET col == pcfg.join_name_for_codes[k]
       IN  pdf' = IF col \in Range(pdf.columns)
                  THEN set_column(pdf, name_column(col),
                                  [r \in DOMAIN pdf.rows |->
                                      code_to_name(geo, pdf.rows[r][column_index(pdf, col)])])
                  ELSE pdf
    /\ k' = k + 1
    /\ UNCHANGED <<geoVars, fnVars, nspl, geo, pcfg, ppc>>

\* lines 39-47: rename_final (keys that name no column are ignored), the writes
Finish ==
    /\ ppc = "join"
    /\ k > Len(pcfg.join_name_for_codes)
    /\ pdf' = [pdf EXCEPT !.columns =
                 [n \in DOMAIN pdf.columns |->
                     IF pdf.columns[n] \in DOMAIN pcfg.rename_final
                     THEN pcfg.rename_final[pdf.columns[n]] ELSE pdf.columns[n]]]
    /\ ppc' = "written"
    /\ UNCHANGED <<geoVars, fnVars, nspl, geo, pcfg, k>>

SpecJoin == PostInit /\ [][ReadCsv \/ JoinStep \/ Finish]_vars

\* the join loop has ended and rename_final has not been applied yet
joined == ppc = "join" /\ k > Len(pcfg.join_name_for_codes)

\* C7: for every column c of join_name_for_codes that the postcode table has and
\* every row r of it, the joined table's c_name at r is the Name of the lookup
\* record whose Code is r[c], and null when there is no such record.
C7_JoinedNames ==
    joined =>
      \A c \in Range(pcfg.join_name_for_codes) \cap Range(nspl.columns) :
        /\ name_column(c) \in Range(pdf.columns)
        /\ Len(pdf.rows) = Len(nspl.rows)
        /\ \A r \in DOMAIN nspl.rows :
             LET code    == nspl.rows[r][column_index(nspl, c)]
                 matches == {n \in DOMAIN geo : geo[n].Code = code}
                 named   == pdf.rows[r][column_index(pdf, name_column(c))]
             IN  IF matches = {} THEN named = NA
                 ELSE \E n \in matches : named = geo[n].Name

\* C8: the join changes no value of a column the postcode table already had, also
\* when it already has a column called c_name; the rows keep their number and
\* order, and columns are only added.
C8_OriginalColumnsUntouched ==
    ppc = "join" =>
      /\ Len(pdf.rows) = Len(nspl.rows)
      /\ SubSeq(pdf.columns, 1, Len(nspl.columns)) = nspl.columns
      /\ \A r \in DOMAIN nspl.rows :
           SubSeq(pdf.rows[r], 1, Len(nspl.columns)) = nspl.rows[r]

====
